---------------------------- MODULE Spec2Model ----------------------------
(***************************************************************************)
(* A model of the shell-rs command interpreter (src/main.rs): the read /   *)
(* tokenize / parse_redirection / dispatch loop of main, the builtins, the *)
(* external command runner and the output sinks.                           *)
(*                                                                         *)
(* Text is a sequence of one-character strings, so that byte offsets,      *)
(* prefixes and substring tests are computed and not assumed.  A path of   *)
(* the file system is the sequence of its component names below the root.  *)
(***************************************************************************)
EXTENDS Integers, Sequences, FiniteSets, TLC

(***************************************************************************)
(* Bounds of the model.                                                    *)
(***************************************************************************)
\* number of input lines the interpreter reads in one behaviour
MaxLines == 2

(***************************************************************************)
(* Text helpers.                                                           *)
(***************************************************************************)
NL == <<"\n">>
SP == <<" ">>
WhiteSpace == {" ", "\t", "\n"}
Digits == {"0", "1", "2", "3", "4", "5", "6", "7", "8", "9"}

Last(s) == s[Len(s)]
Front(s) == SubSeq(s, 1, Len(s) - 1)
StartsWith(s, c) == Len(s) > 0 /\ s[1] = c
Contains(s, c) == \E i \in 1..Len(s) : s[i] = c

RECURSIVE Join(_, _)
\* [&str]::join(sep)
Join(strs, sep) ==
    IF strs = <<>> THEN <<>>
    ELSE IF Len(strs) = 1 THEN strs[1]
    ELSE strs[1] \o sep \o Join(Tail(strs), sep)

RECURSIVE TrimStart(_)
TrimStart(s) ==
    IF s # <<>> /\ s[1] \in WhiteSpace THEN TrimStart(Tail(s)) ELSE s

RECURSIVE TrimEnd(_)
TrimEnd(s) ==
    IF s # <<>> /\ Last(s) \in WhiteSpace THEN TrimEnd(Front(s)) ELSE s

\* str::trim
Trim(s) == TrimEnd(TrimStart(s))

RECURSIVE SplitOn(_, _, _)
\* the pieces of s between occurrences of sep, empty pieces included;
\* cur is the piece being read
SplitOn(s, sep, cur) ==
    IF s = <<>> THEN <<cur>>
    ELSE IF s[1] = sep THEN <<cur>> \o SplitOn(Tail(s), sep, <<>>)
    ELSE SplitOn(Tail(s), sep, Append(cur, s[1]))

RECURSIVE DecimalDigits(_)
\* the decimal digits of a natural number
DecimalDigits(n) ==
    LET d == CHOOSE c \in Digits :
                 c = <<"0","1","2","3","4","5","6","7","8","9">>[(n % 10) + 1]
    IN  IF n < 10 THEN <<d>> ELSE Append(DecimalDigits(n \div 10), d)

(***************************************************************************)
(* The tokenizer: Shlex::new(line).collect().  The iterator yields words   *)
(* until the input ends or a quote or escape is left unterminated; collect *)
(* keeps the words yielded before that point.                              *)
(***************************************************************************)
RECURSIVE ParseSingle(_, _, _)
\* from position i, just after an opening single quote
ParseSingle(s, i, acc) ==
    IF i > Len(s) THEN [err |-> TRUE, tok |-> acc, next |-> i]
    ELSE IF s[i] = "'" THEN [err |-> FALSE, tok |-> acc, next |-> i + 1]
    ELSE ParseSingle(s, i + 1, Append(acc, s[i]))

\* the characters a backslash escapes inside double quotes (the backquote,
\* which the lexer also escapes, is not in the model's alphabet)
DoubleQuoteEscapable == {"$", "\"", "\\"}

RECURSIVE ParseDouble(_, _, _)
\* from position i, just after an opening double quote
ParseDouble(s, i, acc) ==
    IF i > Len(s) THEN [err |-> TRUE, tok |-> acc, next |-> i]
    ELSE IF s[i] = "\"" THEN [err |-> FALSE, tok |-> acc, next |-> i + 1]
    ELSE IF s[i] = "\\" THEN
        IF i + 1 > Len(s) THEN [err |-> TRUE, tok |-> acc, next |-> i + 1]
        ELSE IF s[i + 1] = "\n" THEN ParseDouble(s, i + 2, acc)
        ELSE IF s[i + 1] \in DoubleQuoteEscapable
             THEN ParseDouble(s, i + 2, Append(acc, s[i + 1]))
        ELSE ParseDouble(s, i + 2, acc \o <<"\\", s[i + 1]>>)
    ELSE ParseDouble(s, i + 1, Append(acc, s[i]))

RECURSIVE ParseWord(_, _, _)
\* a word starting at position i (not blank); next is the position after
\* the last character consumed
ParseWord(s, i, acc) ==
    IF i > Len(s) THEN [err |-> FALSE, tok |-> acc, next |-> i]
    ELSE IF s[i] = "\"" THEN
        LET r == ParseDouble(s, i + 1, acc)
        IN  IF r.err THEN r ELSE ParseWord(s, r.next, r.tok)
    ELSE IF s[i] = "'" THEN
        LET r == ParseSingle(s, i + 1, acc)
        IN  IF r.err THEN r ELSE ParseWord(s, r.next, r.tok)
    ELSE IF s[i] = "\\" THEN
        IF i + 1 > Len(s) THEN [err |-> TRUE, tok |-> acc, next |-> i + 1]
        ELSE IF s[i + 1] = "\n" THEN ParseWord(s, i + 2, acc)
        ELSE ParseWord(s, i + 2, Append(acc, s[i + 1]))
    ELSE IF s[i] \in WhiteSpace THEN [err |-> FALSE, tok |-> acc, next |-> i + 1]
    ELSE ParseWord(s, i + 1, Append(acc, s[i]))

RECURSIVE SkipBlank(_, _)
\* the position of the first character of the next word at or after i,
\* blanks and # comments skipped; 0 when the input ends first
SkipBlank(s, i) ==
    IF i > Len(s) THEN 0
    ELSE IF s[i] \in WhiteSpace THEN SkipBlank(s, i + 1)
    ELSE IF s[i] = "#" THEN
        LET ends == {j \in i..Len(s) : s[j] = "\n"}
        IN  IF ends = {} THEN 0
            ELSE SkipBlank(s, (CHOOSE j \in ends : \A k \in ends : j <= k) + 1)
    ELSE i

RECURSIVE ShlexFrom(_, _, _)
\* the words yielded from position i on, after the words toks
ShlexFrom(s, i, toks) ==
    LET start == SkipBlank(s, i)
    IN  IF start = 0 THEN [had_error |-> FALSE, tokens |-> toks]
        ELSE LET r == ParseWord(s, start, <<>>)
             IN  IF r.err THEN [had_error |-> TRUE, tokens |-> toks]
                 ELSE ShlexFrom(s, r.next, Append(toks, r.tok))

Shlex(s) == ShlexFrom(s, 1, <<>>)

(***************************************************************************)
(* The file system the interpreter runs in.  Directories are fixed: the    *)
(* root, a writable directory /d (the initial working directory and the    *)
(* value of HOME when HOME is set) and a read-only directory /b holding    *)
(* the executable x.  The regular files the user can create live in /d.    *)
(***************************************************************************)
Name_d == <<"d">>
Name_b == <<"b">>
Name_x == <<"x">>
Root == <<>>
Dirs == {Root, <<Name_d>>, <<Name_b>>}
WritableDirs == {<<Name_d>>}
\* the executables, with what each prints on its standard output and error
Programs == (<<Name_b, Name_x>> :> [out |-> <<"o","\n">>, err |-> <<"e","\n">>])
\* env::var("PATH")
PATH == <<"/","d",":","/","b">>
HomeDir == <<"/","d">>
NoPath == [ok |-> FALSE, path |-> Root]

IsFile(fs, p) == p \in DOMAIN fs \/ p \in DOMAIN Programs

RECURSIVE Walk(_, _, _)
\* path resolution by the operating system: from directory cur, follow comps
Walk(fs, cur, comps) ==
    IF comps = <<>> THEN [ok |-> TRUE, path |-> cur]
    ELSE IF cur \notin Dirs THEN NoPath
    ELSE IF Head(comps) = <<".">> THEN Walk(fs, cur, Tail(comps))
    ELSE IF Head(comps) = <<".",".">>
         THEN Walk(fs, IF cur = Root THEN Root ELSE Front(cur), Tail(comps))
    ELSE LET child == Append(cur, Head(comps))
         IN  IF child \in Dirs \/ IsFile(fs, child)
             THEN Walk(fs, child, Tail(comps))
             ELSE NoPath

\* the non-empty pieces of a path string between slashes
OsComps(text) == SelectSeq(SplitOn(text, "/", <<>>), LAMBDA c : c # <<>>)

\* stat(2) of a path string in working directory cwd
Stat(fs, cwd, text) ==
    IF text = <<>> THEN NoPath
    ELSE LET r == Walk(fs, IF StartsWith(text, "/") THEN Root ELSE cwd, OsComps(text))
         IN  IF r.ok /\ Last(text) = "/" /\ r.path \notin Dirs THEN NoPath ELSE r

\* Path::components: a leading "." is kept, other "." and empty pieces are not
Components(text) ==
    LET pieces == SplitOn(text, "/", <<>>)
        keep(i) == \/ pieces[i] \notin {<<>>, <<".">>}
                   \/ i = 1 /\ pieces[i] = <<".">>
        RECURSIVE From(_)
        From(i) == IF i > Len(pieces) THEN <<>>
                   ELSE IF keep(i) THEN <<pieces[i]>> \o From(i + 1)
                   ELSE From(i + 1)
    IN  [root |-> StartsWith(text, "/"), comps |-> From(1)]

\* Path::parent: None for a path with no component after the root
PathParent(text) ==
    LET c == Components(text)
    IN  IF c.comps = <<>> THEN [some |-> FALSE, root |-> c.root, comps |-> <<>>]
        ELSE [some |-> TRUE, root |-> c.root, comps |-> Front(c.comps)]

\* Path::exists of a parent path; the empty path does not exist
PathExists(fs, cwd, p) ==
    IF ~p.root /\ p.comps = <<>> THEN FALSE
    ELSE Walk(fs, IF p.root THEN Root ELSE cwd, p.comps).ok

\* Path::is_file of a path string
PathIsFile(fs, cwd, text) ==
    LET r == Stat(fs, cwd, text) IN r.ok /\ IsFile(fs, r.path)

RECURSIVE Display(_)
\* the string of an absolute path
Display(p) ==
    IF p = Root THEN <<"/">>
    ELSE IF Len(p) = 1 THEN <<"/">> \o p[1]
    ELSE Display(Front(p)) \o <<"/">> \o Last(p)

\* PathBuf::join
PathJoin(dir, name) ==
    IF StartsWith(name, "/") THEN name
    ELSE IF dir = <<>> \/ Last(dir) = "/" THEN dir \o name
    ELSE dir \o <<"/">> \o name

\* open(2) with O_CREAT | O_WRONLY (and O_APPEND, which does not decide the
\* outcome): the file opened, and the files after a possible creation
OpenForWrite(fs, cwd, text) ==
    LET comps == OsComps(text)
        fail == [ok |-> FALSE, path |-> Root, files |-> fs]
    IN  IF text = <<>> \/ comps = <<>> \/ Last(text) = "/" THEN fail
        ELSE LET dir == Walk(fs, IF StartsWith(text, "/") THEN Root ELSE cwd, Front(comps))
                 child == Append(dir.path, Last(comps))
             IN  IF ~dir.ok \/ dir.path \notin Dirs THEN fail
                 ELSE IF Last(comps) \in {<<".">>, <<".",".">>} \/ child \in Dirs THEN fail
                 ELSE IF child \in DOMAIN Programs THEN fail
                 ELSE IF child \in DOMAIN fs
                      THEN [ok |-> TRUE, path |-> child, files |-> fs]
                 ELSE IF dir.path \in WritableDirs
                      THEN [ok |-> TRUE, path |-> child, files |-> (child :> <<>>) @@ fs]
                 ELSE fail

(***************************************************************************)
(* The output sinks (Box<dyn Write>): the process's standard output, its   *)
(* standard error, or a file opened by a redirection, with the handle's    *)
(* open mode and offset.                                                   *)
(***************************************************************************)
StdoutSink == [kind |-> "stdout", path |-> Root, append |-> FALSE, pos |-> 0]
StderrSink == [kind |-> "stderr", path |-> Root, append |-> FALSE, pos |-> 0]
FileSink(p, is_append) == [kind |-> "file", path |-> p, append |-> is_append, pos |-> 0]

\* write(2) of text through a file handle: at the end of the file for a handle
\* opened with append, else at the handle's offset, over what is there
FileWrite(content, sink, text) ==
    IF sink.append THEN content \o text
    ELSE SubSeq(content, 1, sink.pos) \o text
         \o SubSeq(content, sink.pos + Len(text) + 1, Len(content))

(***************************************************************************)
(* The state of the process is handled as a record w:                      *)
(*   files, cwd                     the file system's regular files and    *)
(*                                  the working directory                  *)
(*   stdout_buffer, stderr_buffer   the two sinks of the current line      *)
(*   conOut, conErr                 what the current line put on the       *)
(*                                  process's standard output and error    *)
(*   wrOut, wrErr                   what the current line wrote through    *)
(*                                  stdout_buffer and stderr_buffer        *)
(*   status, exitCode               running, exited (with a code), or      *)
(*                                  panicked                               *)
(*   note                           the branch the last command took       *)
(***************************************************************************)
Panic(w, why) == [w EXCEPT !.status = "panicked", !.note = why]

\* write!(buffer, "{}", message).unwrap(); buffer.flush().unwrap()
write_to_buffer(message, which, w) ==
    LET sink == IF which = "stdout_buffer" THEN w.stdout_buffer ELSE w.stderr_buffer
        logged == IF which = "stdout_buffer"
                  THEN [w EXCEPT !.wrOut = @ \o message]
                  ELSE [w EXCEPT !.wrErr = @ \o message]
        moved == IF sink.kind = "file" THEN [sink EXCEPT !.pos = @ + Len(message)] ELSE sink
        written ==
            IF sink.kind = "stdout" THEN [logged EXCEPT !.conOut = @ \o message]
            ELSE IF sink.kind = "stderr" THEN [logged EXCEPT !.conErr = @ \o message]
            ELSE [logged EXCEPT !.files[sink.path] = FileWrite(@, sink, message)]
    IN  IF which = "stdout_buffer"
        THEN [written EXCEPT !.stdout_buffer = moved]
        ELSE [written EXCEPT !.stderr_buffer = moved]

\* writeln!(buffer, "{}", message).unwrap(); buffer.flush().unwrap()
writeln_to_buffer(message, which, w) == write_to_buffer(message \o NL, which, w)

\* a report sent to the error sink
cmd_not_found_to_stderr(cmd, w) ==
    [writeln_to_buffer(cmd \o <<":"," ","c","o","m","m","a","n","d"," ","n","o","t"," ","f","o","u","n","d">>, "stderr_buffer", w)
        EXCEPT !.note = "not_found"]

cmd_not_found(cmd, w) ==
    [writeln_to_buffer(cmd \o <<":"," ","c","o","m","m","a","n","d"," ","n","o","t"," ","f","o","u","n","d">>, "stdout_buffer", w)
        EXCEPT !.note = "not_found"]

(***************************************************************************)
(* The builtins.                                                           *)
(***************************************************************************)
BUILTINS == {<<"e","c","h","o">>, <<"t","y","p","e">>, <<"p","w","d">>, <<"e","x","i","t">>}
REDIR_WRITE_PATTERNS == {<<">">>, <<"1",">">>, <<"2",">">>}
REDIR_APPEND_PATTERNS == {<<">",">">>, <<"1",">",">">>, <<"2",">",">">>}

echo_cmd(echo_strs, w) ==
    [writeln_to_buffer(Join(echo_strs, SP), "stdout_buffer", w) EXCEPT !.note = "echo"]

pwd_cmd(cmds, w) ==
    IF Len(cmds) > 1
    THEN [writeln_to_buffer(<<"t","o","o"," ","m","a","n","y"," ","a","r","g","u","m","e","n","t","s">>, "stdout_buffer", w)
             EXCEPT !.note = "pwd_too_many"]
    ELSE [writeln_to_buffer(Display(w.cwd), "stdout_buffer", w) EXCEPT !.note = "pwd"]

\* a set_current_dir whose error is dropped
SetCurrentDir_error_dropped(w, text) ==
    LET r == Stat(w.files, w.cwd, text)
    IN  [ok |-> TRUE, cwd |-> IF r.ok /\ r.path \in Dirs THEN r.path ELSE w.cwd]

\* env::set_current_dir
SetCurrentDir(w, text) ==
    LET r == Stat(w.files, w.cwd, text)
    IN  IF r.ok /\ r.path \in Dirs THEN [ok |-> TRUE, cwd |-> r.path]
        ELSE [ok |-> FALSE, cwd |-> w.cwd]

\* a cd_cmd that unwraps the result of set_current_dir
cd_failed_unwrap(path, w) == Panic(w, "cd_failed")

\* the report of cd_cmd when set_current_dir returns an error
cd_failed(path, w) ==
    [writeln_to_buffer(<<"c","d",":"," ">> \o path \o <<":"," ","N","o"," ","s","u","c","h"," ","f","i","l","e"," ","o","r"," ","d","i","r","e","c","t","o","r","y">>,
                       "stdout_buffer", w)
        EXCEPT !.note = "cd_failed"]

\* home is env::var("HOME"): <<>> when unset, else <<value>>
cd_cmd(cmds, home, w) ==
    IF Len(cmds) > 1
    THEN [writeln_to_buffer(<<"t","o","o"," ","m","a","n","y"," ","a","r","g","u","m","e","n","t","s">>, "stdout_buffer", w)
             EXCEPT !.note = "cd_too_many"]
    ELSE IF Len(cmds) = 0 \/ StartsWith(cmds[1], "~")
    THEN IF home = <<>> THEN Panic(w, "cd_home_unset")
         ELSE LET r == SetCurrentDir(w, home[1])
              IN  IF r.ok THEN [w EXCEPT !.cwd = r.cwd, !.note = "cd_home"]
                  ELSE Panic(w, "cd_home_missing")
    ELSE LET path == IF StartsWith(cmds[1], ".")
                     THEN Display(w.cwd) \o <<"/">> \o cmds[1]
                     ELSE cmds[1]
             r == SetCurrentDir(w, path)
         IN  IF r.ok THEN [w EXCEPT !.cwd = r.cwd, !.note = "cd"]
             ELSE cd_failed(path, w)

\* a lookup that keeps the last directory that qualifies
find_external_cmd_last(env_path, cmd, w) ==
    LET path_dirs == SplitOn(env_path, ":", <<>>)
        hits == {i \in 1..Len(path_dirs) :
                    PathIsFile(w.files, w.cwd, PathJoin(path_dirs[i], cmd))}
    IN  IF hits = {} THEN [some |-> FALSE, path |-> <<>>]
        ELSE [some |-> TRUE,
              path |-> PathJoin(path_dirs[CHOOSE i \in hits : \A j \in hits : i >= j], cmd)]

\* the first directory of env_path whose join with cmd is a regular file
find_external_cmd(env_path, cmd, w) ==
    LET path_dirs == SplitOn(env_path, ":", <<>>)
        hits == {i \in 1..Len(path_dirs) :
                    PathIsFile(w.files, w.cwd, PathJoin(path_dirs[i], cmd))}
    IN  IF hits = {} THEN [some |-> FALSE, path |-> <<>>]
        ELSE [some |-> TRUE,
              path |-> PathJoin(path_dirs[CHOOSE i \in hits : \A j \in hits : i <= j], cmd)]

type_cmd(type_strs, env_path, w) ==
    IF Len(type_strs) # 1
    THEN [writeln_to_buffer(
              <<"i","n","c","o","r","r","e","c","t"," ","n","u","m","b","e","r"," ","o","f"," ","a","r","g","s"," ","f","o","r"," ","t","y","p","e"," ","c","o","m","m","a","n","d",","," ","e","x","p","e","c","t","e","d"," ","1",","," ","g","o","t"," ">>
                  \o DecimalDigits(Len(type_strs)),
              "stdout_buffer", w)
             EXCEPT !.note = "type_arg_count"]
    ELSE LET cmd == type_strs[1]
             external_cmd == find_external_cmd(env_path, cmd, w)
         IN  IF cmd \in BUILTINS
             THEN [writeln_to_buffer(cmd \o <<" ","i","s"," ","a"," ","s","h","e","l","l"," ","b","u","i","l","t","i","n">>, "stdout_buffer", w)
                      EXCEPT !.note = "type_builtin"]
             ELSE IF external_cmd.some
             THEN [writeln_to_buffer(cmd \o <<" ","i","s"," ">> \o external_cmd.path, "stdout_buffer", w)
                      EXCEPT !.note = "type_external"]
             ELSE [writeln_to_buffer(cmd \o <<":"," ","n","o","t"," ","f","o","u","n","d">>, "stdout_buffer", w)
                      EXCEPT !.note = "type_not_found"]

(***************************************************************************)
(* The external command runner.                                            *)
(***************************************************************************)
\* Command::new(cmd).output(): the program the operating system runs for
\* cmd (a name with a slash is a path; any other name is searched in the
\* directories of PATH for an executable), or none
Spawn(env_path, cmd, w) ==
    LET path_dirs == SplitOn(env_path, ":", <<>>)
        prog(text) == LET r == Stat(w.files, w.cwd, text)
                      IN  IF r.ok /\ r.path \in DOMAIN Programs THEN <<r.path>> ELSE <<>>
        hits == {i \in 1..Len(path_dirs) : prog(PathJoin(path_dirs[i], cmd)) # <<>>}
    IN  IF Contains(cmd, "/") THEN prog(cmd)
        ELSE IF hits = {} THEN <<>>
        ELSE prog(PathJoin(path_dirs[CHOOSE i \in hits : \A j \in hits : i <= j], cmd))

try_external_cmd(env_path, cmds, w) ==
    IF cmds = <<>> THEN Panic(w, "no_first_token")
    ELSE LET cmd == cmds[1]
         IN  IF find_external_cmd(env_path, cmd, w).some
             THEN LET child == Spawn(env_path, cmd, w)
                  IN  IF child = <<>> THEN Panic(w, "spawn_failed")
                      ELSE LET output == Programs[child[1]]
                               w1 == write_to_buffer(output.out, "stdout_buffer", w)
                               w2 == write_to_buffer(output.err, "stderr_buffer", w1)
                           IN  [w2 EXCEPT !.note = "spawned"]
             ELSE cmd_not_found(cmd, w)

(***************************************************************************)
(* Redirection parsing.  Indices are 1-based here: the operator is         *)
(* cmds[curr_idx] and its target cmds[curr_idx + 1].                       *)
(***************************************************************************)
Ok == <<>>
Err(message) == <<message>>

\* a selection that looks for the digit of the other stream
SelectsStderr_digit1(operator) == Contains(operator, "1")

\* cmds[curr_idx].contains("2")
SelectsStderr(operator) == Contains(operator, "2")

\* cmds.drain(curr_idx..curr_idx + 1): the operator goes, its target stays
Drain_exclusive(cmds, curr_idx) ==
    SubSeq(cmds, 1, curr_idx - 1) \o SubSeq(cmds, curr_idx + 1, Len(cmds))

\* cmds.drain(curr_idx..=curr_idx + 1)
Drain(cmds, curr_idx) ==
    SubSeq(cmds, 1, curr_idx - 1) \o SubSeq(cmds, curr_idx + 2, Len(cmds))

apply_redirection(is_append, curr_idx, cmds, w) ==
    IF curr_idx + 1 > Len(cmds)
    THEN [result |-> Err(<<"R","e","d","i","r","e","c","t","i","o","n"," ","t","a","r","g","e","t"," ","m","i","s","s","i","n","g">>), cmds |-> cmds, w |-> w]
    ELSE LET redir_target == cmds[curr_idx + 1]
             parent == PathParent(redir_target)
             redir_buffer == OpenForWrite(w.files, w.cwd, redir_target)
             opened == [w EXCEPT !.files = redir_buffer.files]
             sink == FileSink(redir_buffer.path, is_append)
         IN  IF ~parent.some
             THEN [result |-> Ok, cmds |-> cmds, w |-> Panic(w, "target_has_no_parent")]
             ELSE IF ~PathExists(w.files, w.cwd, parent)
             THEN [result |-> Err(<<"R","e","d","i","r","e","c","t","i","o","n"," ","t","a","r","g","e","t"," ","d","o","e","s","n","'","t"," ","e","x","i","s","t">>),
                   cmds |-> cmds, w |-> w]
             ELSE IF ~redir_buffer.ok
             THEN [result |-> Err(<<"F","a","i","l","e","d"," ","t","o"," ","o","p","e","n"," ","r","e","d","i","r","e","c","t","i","o","n"," ","t","a","r","g","e","t"," ","f","o","r"," ","w","r","i","t","i","n","g">>),
                   cmds |-> cmds, w |-> w]
             ELSE [result |-> Ok,
                   cmds |-> Drain(cmds, curr_idx),
                   w |-> IF SelectsStderr(cmds[curr_idx])
                         THEN [opened EXCEPT !.stderr_buffer = sink]
                         ELSE [opened EXCEPT !.stdout_buffer = sink]]

\* a scan without the pattern test: the first token is taken for an operator
parse_redirection_untested(cmds, w) ==
    IF cmds = <<>> THEN [result |-> Ok, cmds |-> cmds, w |-> w]
    ELSE apply_redirection(FALSE, 1, cmds, w)

\* a scan from the right: the last operator decides
parse_redirection_last(cmds, w) ==
    LET ops == {i \in 1..Len(cmds) :
                   cmds[i] \in REDIR_WRITE_PATTERNS \cup REDIR_APPEND_PATTERNS}
        i == CHOOSE k \in ops : \A j \in ops : k >= j
    IN  IF ops = {} THEN [result |-> Ok, cmds |-> cmds, w |-> w]
        ELSE apply_redirection(cmds[i] \in REDIR_APPEND_PATTERNS, i, cmds, w)

\* the first index holding a redirection operator decides; later ones are
\* not looked at
parse_redirection(cmds, w) ==
    LET ops == {i \in 1..Len(cmds) :
                   cmds[i] \in REDIR_WRITE_PATTERNS \cup REDIR_APPEND_PATTERNS}
        i == CHOOSE k \in ops : \A j \in ops : k <= j
    IN  IF ops = {} THEN [result |-> Ok, cmds |-> cmds, w |-> w]
        ELSE apply_redirection(cmds[i] \in REDIR_APPEND_PATTERNS, i, cmds, w)

RECURSIVE StripZeros(_)
StripZeros(ds) == IF Len(ds) > 1 /\ ds[1] = "0" THEN StripZeros(Tail(ds)) ELSE ds

RECURSIVE DigitsValue(_)
DigitsValue(ds) ==
    IF ds = <<>> THEN 0
    ELSE 10 * DigitsValue(Front(ds)) + (CHOOSE v \in 0..9 : DecimalDigits(v) = <<Last(ds)>>)

\* whether the digit strings a and b, of the same length, satisfy a <= b
DigitsLeq(a, b) ==
    \/ a = b
    \/ \E i \in 1..Len(a) :
          /\ \A j \in 1..(i - 1) : a[j] = b[j]
          /\ DigitsValue(<<a[i]>>) < DigitsValue(<<b[i]>>)

\* a lenient parse: what is not a number counts as 0
ParseI32_lenient(s) == [ok |-> TRUE, val |-> 0]

\* i32::from_str: an optional sign, then one digit or more, the value in
\* -2147483648 ..= 2147483647
ParseI32(s) ==
    LET signed == s # <<>> /\ s[1] \in {"+", "-"}
        negative == signed /\ s[1] = "-"
        body == IF signed THEN Tail(s) ELSE s
        digits == StripZeros(body)
        wellFormed == body # <<>> /\ \A i \in 1..Len(body) : body[i] \in Digits
        least == <<"2","1","4","7","4","8","3","6","4","8">>
        inRange == \/ Len(digits) < Len(least)
                   \/ /\ Len(digits) = Len(least)
                      /\ DigitsLeq(digits, IF negative THEN least ELSE <<"2","1","4","7","4","8","3","6","4","7">>)
    IN  IF ~wellFormed \/ ~inRange THEN [ok |-> FALSE, val |-> 0]
        ELSE IF negative /\ digits = least THEN [ok |-> TRUE, val |-> (0 - 2147483647) - 1]
        ELSE [ok |-> TRUE, val |-> IF negative THEN 0 - DigitsValue(digits)
                                   ELSE DigitsValue(digits)]

(***************************************************************************)
(* The lines the user types.  A line is a command (possibly none) with or  *)
(* without redirections after it, the words separated by one space, or one *)
(* of a few lines that exercise the tokenizer.                             *)
(***************************************************************************)
Operators == REDIR_WRITE_PATTERNS \cup REDIR_APPEND_PATTERNS

PlainCommands ==
    { <<<<"e","c","h","o">>>>, <<<<"e","c","h","o">>, <<"a">>>>, <<<<"e","c","h","o">>, <<"'","b"," ","c","'">>, <<"a">>>>,
      <<<<"p","w","d">>>>, <<<<"p","w","d">>, <<"a">>>>,
      <<<<"t","y","p","e">>>>, <<<<"t","y","p","e">>, <<"c","d">>>>, <<<<"t","y","p","e">>, <<"p","w","d">>>>, <<<<"t","y","p","e">>, <<"x">>>>,
      <<<<"t","y","p","e">>, <<"n">>>>,
      <<<<"c","d">>>>, <<<<"c","d">>, <<".",".">>>>, <<<<"c","d">>, <<"/","n">>>>, <<<<"c","d">>, <<"/","b">>>>,
      <<<<"c","d">>, <<"~">>>>, <<<<"c","d">>, <<"a">>, <<"a">>>>,
      <<<<"e","x","i","t">>>>, <<<<"e","x","i","t">>, <<"7">>>>, <<<<"e","x","i","t">>, <<"a">>>>, <<<<"e","x","i","t">>, <<"0">>, <<"0">>>>,
      <<<<"x">>>>, <<<<"x">>, <<"a">>>>, <<<<"n">>>>,
      <<<<"f">>>>, <<<<"t","y","p","e">>, <<"f">>>> }

RedirectedCommands ==
    { <<>>, <<<<"e","c","h","o">>>>, <<<<"e","c","h","o">>, <<"a">>>>, <<<<"p","w","d">>>>, <<<<"t","y","p","e">>, <<"c","d">>>>,
      <<<<"c","d">>, <<"/","n">>>>, <<<<"x">>>>, <<<<"n">>>> }

Redirections ==
    {<<op, <<"/","d","/","f">>>> : op \in Operators}
    \cup {<<<<">">>, t>> : t \in {<<"f">>, <<".","/","f">>, <<"/","n","/","f">>, <<"/">>, <<"'","'">>, <<"/","b","/","x">>, <<"/","d">>}}
    \cup {<<<<">">>>>, <<<<"2",">",">">>>>}
    \cup {<<<<">">>, <<"/","d","/","f">>, <<"2",">">>, <<"/","d","/","g">>>>, <<<<"2",">",">">>, <<".","/","f">>, <<">">>>>}

SpecialLines ==
    { <<>>, <<" "," "," ">>, <<"#","c">>, <<"e","c","h","o"," ","'","a">>, <<"\"","a">>, <<">"," ","/","d","/","f"," ","e","c","h","o"," ","a">>,
      <<"e","c","h","o"," ","\"",">","\""," ","a">>, <<"e","c","h","o"," ",">"," ","/","d","/","x">> }

Lines ==
    {Join(c, SP) : c \in PlainCommands}
    \cup {Join(c \o r, SP) : c \in RedirectedCommands, r \in Redirections}
    \cup SpecialLines

\* what read_line puts in input: a line with its newline, or nothing at the
\* end of the input
Inputs == {line \o NL : line \in Lines} \cup {<<>>}

(***************************************************************************)
(* The interpreter: the loop of main.                                      *)
(***************************************************************************)
VARIABLES
    pc,             \* where main is: start (top of the loop), read, parse,
                    \* dispatch, exited, panicked
    nlines,         \* the number of read_line calls so far
    home,           \* env::var("HOME"): <<>> when unset, else <<value>>
    input,          \* the line read
    tokens,         \* posix_friendly_input
    had_error,      \* whether the tokenizer stopped at an unterminated quote
    cmds,           \* the command line
    result,         \* what parse_redirection returned for the line
    files,          \* the regular files of /d and their contents
    filesAtStart,   \* files as they were when the line was read
    cwd,            \* the working directory
    stdout_buffer, stderr_buffer,
    conOut, conErr, wrOut, wrErr,
    exitCode,
    note

vars == <<pc, nlines, home, input, tokens, had_error, cmds, result, files,
          filesAtStart, cwd, stdout_buffer, stderr_buffer, conOut, conErr,
          wrOut, wrErr, exitCode, note>>

World ==
    [files |-> files, cwd |-> cwd,
     stdout_buffer |-> stdout_buffer, stderr_buffer |-> stderr_buffer,
     conOut |-> conOut, conErr |-> conErr, wrOut |-> wrOut, wrErr |-> wrErr,
     status |-> "running", exitCode |-> exitCode, note |-> note]

\* the process state becomes w; main goes on at next unless w ended it
Commit(w, next) ==
    /\ files' = w.files
    /\ cwd' = w.cwd
    /\ stdout_buffer' = w.stdout_buffer
    /\ stderr_buffer' = w.stderr_buffer
    /\ conOut' = w.conOut
    /\ conErr' = w.conErr
    /\ wrOut' = w.wrOut
    /\ wrErr' = w.wrErr
    /\ exitCode' = w.exitCode
    /\ note' = w.note
    /\ pc' = IF w.status = "running" THEN next ELSE w.status

Init ==
    /\ pc = "start"
    /\ nlines = 0
    /\ home \in {<<>>, <<HomeDir>>}
    /\ input = <<>>
    /\ tokens = <<>>
    /\ had_error = FALSE
    /\ cmds = <<>>
    /\ result = Ok
    /\ files = <<>>
    /\ filesAtStart = <<>>
    /\ cwd = <<Name_d>>
    /\ stdout_buffer = StdoutSink
    /\ stderr_buffer = StderrSink
    /\ conOut = <<>>
    /\ conErr = <<>>
    /\ wrOut = <<>>
    /\ wrErr = <<>>
    /\ exitCode = 0
    /\ note = "none"

\* sinks created once, before the loop
FreshSinks_kept(w) == w

\* the two sinks a loop iteration starts with
FreshSinks(w) == [w EXCEPT !.stdout_buffer = StdoutSink, !.stderr_buffer = StderrSink]

\* the top of the loop: fresh sinks, then the prompt
LoopStart ==
    /\ pc = "start"
    /\ LET w0 == [FreshSinks(World) EXCEPT !.conOut = <<>>, !.conErr = <<>>]
       IN  Commit(write_to_buffer(<<"$"," ">>, "stdout_buffer", w0), "read")
    /\ UNCHANGED <<nlines, home, input, tokens, had_error, cmds, result, filesAtStart>>

\* read_line, then the no-op for a line that is empty once trimmed
SkipEmptyLine ==
    /\ pc = "read"
    /\ nlines < MaxLines
    /\ \E line \in Inputs :
        /\ Trim(line) = <<>>
        /\ input' = line
    /\ nlines' = nlines + 1
    /\ tokens' = <<>>
    /\ cmds' = <<>>
    /\ had_error' = FALSE
    /\ result' = Ok
    /\ filesAtStart' = files
    /\ wrOut' = <<>>
    /\ wrErr' = <<>>
    /\ note' = "empty_line"
    /\ pc' = "start"
    /\ UNCHANGED <<home, files, cwd, stdout_buffer, stderr_buffer, conOut, conErr, exitCode>>

\* read_line, then the tokenizer
ReadLine ==
    /\ pc = "read"
    /\ nlines < MaxLines
    /\ \E line \in Inputs :
        /\ Trim(line) # <<>>
        /\ input' = line
        /\ LET lexed == Shlex(Trim(line))
           IN  /\ tokens' = lexed.tokens
               /\ cmds' = lexed.tokens
               /\ had_error' = lexed.had_error
    /\ nlines' = nlines + 1
    /\ result' = Ok
    /\ filesAtStart' = files
    /\ wrOut' = <<>>
    /\ wrErr' = <<>>
    /\ note' = "none"
    /\ pc' = "parse"
    /\ UNCHANGED <<home, files, cwd, stdout_buffer, stderr_buffer, conOut, conErr, exitCode>>

\* parse_redirection returned Ok(())
RedirectionParsed ==
    /\ pc = "parse"
    /\ LET r == parse_redirection(cmds, World)
       IN  /\ r.w.status = "running"
           /\ r.result = Ok
           /\ cmds' = r.cmds
           /\ result' = r.result
           /\ Commit(r.w, "dispatch")
    /\ UNCHANGED <<nlines, home, input, tokens, had_error, filesAtStart>>

\* a main without the continue: the match runs after the report
AfterRedirectionError_falls_through == "dispatch"

\* where main goes on after reporting a failed parse_redirection: continue
AfterRedirectionError == "start"

\* parse_redirection returned Err(err): println!, continue
RedirectionFailed ==
    /\ pc = "parse"
    /\ LET r == parse_redirection(cmds, World)
       IN  /\ r.w.status = "running"
           /\ r.result # Ok
           /\ cmds' = r.cmds
           /\ result' = r.result
           /\ Commit([r.w EXCEPT !.conOut = @ \o <<"F","a","i","l","e","d"," ","t","o"," ","p","a","r","s","e"," ","r","e","d","i","r","e","c","t","i","o","n",":"," ">>
                                              \o r.result[1] \o NL,
                                 !.note = "redirection_failed"],
                     AfterRedirectionError)
    /\ UNCHANGED <<nlines, home, input, tokens, had_error, filesAtStart>>

\* parse_redirection panicked
RedirectionPanicked ==
    /\ pc = "parse"
    /\ LET r == parse_redirection(cmds, World)
       IN  /\ r.w.status = "panicked"
           /\ Commit(r.w, "start")
    /\ UNCHANGED <<nlines, home, input, tokens, had_error, cmds, result, filesAtStart>>

(***************************************************************************)
(* The arms of match cmds[..], in the order of the source.                 *)
(***************************************************************************)
IsExit == cmds # <<>> /\ cmds[1] = <<"e","x","i","t">> /\ Len(cmds) <= 2
LeadsWith(name) == cmds # <<>> /\ cmds[1] = name

ExitCmd ==
    /\ pc = "dispatch"
    /\ IsExit
    /\ LET code == IF Len(cmds) = 1 THEN [ok |-> TRUE, val |-> 0] ELSE ParseI32(cmds[2])
       IN  IF code.ok
           THEN Commit([World EXCEPT !.status = "exited", !.exitCode = code.val,
                                     !.note = "exit"], "start")
           ELSE Commit(Panic(World, "exit_code_not_i32"), "start")
    /\ UNCHANGED <<nlines, home, input, tokens, had_error, cmds, result, filesAtStart>>

PwdCmd ==
    /\ pc = "dispatch"
    /\ ~IsExit /\ LeadsWith(<<"p","w","d">>)
    /\ Commit(pwd_cmd(cmds, World), "start")
    /\ UNCHANGED <<nlines, home, input, tokens, had_error, cmds, result, filesAtStart>>

TypeCmd ==
    /\ pc = "dispatch"
    /\ ~IsExit /\ LeadsWith(<<"t","y","p","e">>)
    /\ Commit(type_cmd(Tail(cmds), PATH, World), "start")
    /\ UNCHANGED <<nlines, home, input, tokens, had_error, cmds, result, filesAtStart>>

EchoCmd ==
    /\ pc = "dispatch"
    /\ ~IsExit /\ LeadsWith(<<"e","c","h","o">>)
    /\ Commit(echo_cmd(Tail(cmds), World), "start")
    /\ UNCHANGED <<nlines, home, input, tokens, had_error, cmds, result, filesAtStart>>

CdCmd ==
    /\ pc = "dispatch"
    /\ ~IsExit /\ LeadsWith(<<"c","d">>)
    /\ Commit(cd_cmd(Tail(cmds), home, World), "start")
    /\ UNCHANGED <<nlines, home, input, tokens, had_error, cmds, result, filesAtStart>>

ExternalCmd ==
    /\ pc = "dispatch"
    /\ ~IsExit
    /\ \A name \in {<<"p","w","d">>, <<"t","y","p","e">>, <<"e","c","h","o">>, <<"c","d">>} : ~LeadsWith(name)
    /\ Commit(try_external_cmd(PATH, cmds, World), "start")
    /\ UNCHANGED <<nlines, home, input, tokens, had_error, cmds, result, filesAtStart>>

Next ==
    \/ LoopStart
    \/ SkipEmptyLine
    \/ ReadLine
    \/ RedirectionParsed
    \/ RedirectionFailed
    \/ RedirectionPanicked
    \/ ExitCmd
    \/ PwdCmd
    \/ TypeCmd
    \/ EchoCmd
    \/ CdCmd
    \/ ExternalCmd

Spec == Init /\ [][Next]_vars

(***************************************************************************)
(* Vocabulary of the properties.                                           *)
(***************************************************************************)
OperatorsIn(seq) == {i \in 1..Len(seq) : seq[i] \in Operators}
HasOperator(seq) == OperatorsIn(seq) # {}
\* the index of the first redirection operator of a sequence that has one
FirstOperator(seq) == CHOOSE i \in OperatorsIn(seq) : \A j \in OperatorsIn(seq) : i <= j
HasTarget(seq) == HasOperator(seq) /\ FirstOperator(seq) < Len(seq)
FirstTarget(seq) == seq[FirstOperator(seq) + 1]

\* the notes of the branches that run a command
CommandNotes ==
    {"echo", "pwd", "pwd_too_many", "cd", "cd_home", "cd_too_many", "cd_failed",
     "type_arg_count", "type_builtin", "type_external", "type_not_found",
     "spawned", "not_found"}
\* the line's command has run and main is back at the top of the loop
CommandDone == pc = "start" /\ note \in CommandNotes
\* the content of a file when the line was read, nothing for a file not there
PriorContent(p) == IF p \in DOMAIN filesAtStart THEN filesAtStart[p] ELSE <<>>
Prompt == <<"$"," ">>

(***************************************************************************)
(* C1: after `cmd > f` the content of f is exactly what the command wrote  *)
(* to stdout_sink, whatever f held before; after `cmd >> f` it is what f   *)
(* held before followed by what the command wrote.                         *)
(***************************************************************************)
C1_StdoutRedirectionContent ==
    (CommandDone /\ stdout_buffer.kind = "file") =>
        files[stdout_buffer.path] =
            IF stdout_buffer.append THEN PriorContent(stdout_buffer.path) \o wrOut
            ELSE wrOut

\* the builtin registry as the design document gives it
RegistryOfTheSpec == {<<"e","x","i","t">>, <<"e","c","h","o">>, <<"p","w","d">>, <<"t","y","p","e">>, <<"c","d">>}

(***************************************************************************)
(* C2: `type <name>` reports "<name> is a shell builtin" for every name of *)
(* the builtin registry {exit, echo, pwd, type, cd}.                       *)
(***************************************************************************)
C2_TypeReportsEveryBuiltin ==
    (/\ CommandDone
     /\ Len(cmds) = 2
     /\ cmds[1] = <<"t","y","p","e">>
     /\ cmds[2] \in RegistryOfTheSpec)
        => wrOut = cmds[2] \o <<" ","i","s"," ","a"," ","s","h","e","l","l"," ","b","u","i","l","t","i","n","\n">>

(***************************************************************************)
(* C3: when the command line reaching dispatch is empty, no command runs,  *)
(* the interpreter does not abort and it goes on to the next prompt.       *)
(***************************************************************************)
C3_EmptyCommandLineIsNoOp ==
    [][(pc = "dispatch" /\ cmds = <<>>) =>
          /\ pc' = "start"
          /\ files' = files
          /\ cwd' = cwd
          /\ wrOut' = <<>>
          /\ wrErr' = <<>>]_vars

\* the directory that holds the file named by target exists
HoldingDirectoryExists(target) ==
    LET comps == OsComps(target)
        dir == Walk(filesAtStart, IF StartsWith(target, "/") THEN Root ELSE cwd,
                    Front(comps))
    IN  comps # <<>> /\ dir.ok /\ dir.path \in Dirs

\* parse_redirection has returned for the line
RedirectionParseEnded ==
    \/ pc = "dispatch"
    \/ pc = "start" /\ note = "redirection_failed"

(***************************************************************************)
(* C4: a redirection is rejected as an invalid target only if the          *)
(* directory holding the target does not exist; when it exists (for a bare *)
(* file name it is the working directory) and the file can be opened, the  *)
(* parse succeeds, the file exists afterwards and the selected sink is     *)
(* that file.                                                              *)
(***************************************************************************)
C4_RejectedOnlyIfParentMissing ==
    (RedirectionParseEnded /\ HasTarget(tokens)) =>
        LET target == FirstTarget(tokens)
            opened == OpenForWrite(filesAtStart, cwd, target)
            sink == IF tokens[FirstOperator(tokens)] \in {<<"2",">">>, <<"2",">",">">>}
                    THEN stderr_buffer ELSE stdout_buffer
        IN  /\ result = Err(<<"R","e","d","i","r","e","c","t","i","o","n"," ","t","a","r","g","e","t"," ","d","o","e","s","n","'","t"," ","e","x","i","s","t">>)
                => ~HoldingDirectoryExists(target)
            /\ (HoldingDirectoryExists(target) /\ opened.ok) =>
                  /\ pc = "dispatch"
                  /\ opened.path \in DOMAIN files
                  /\ sink.kind = "file" /\ sink.path = opened.path

\* the files and sinks show one redirection, to the first target, and no other
OnlyFirstTargetOpened ==
    LET first == OpenForWrite(filesAtStart, cwd, FirstTarget(tokens)).path
        fileSinks == {s \in {stdout_buffer, stderr_buffer} : s.kind = "file"}
    IN  /\ DOMAIN files \subseteq (DOMAIN filesAtStart \cup {first})
        /\ Cardinality(fileSinks) = 1
        /\ \A s \in fileSinks : s.path = first

(***************************************************************************)
(* C5: when the first redirection operator, at index i, has a valid        *)
(* target, the command line after parsing is the token sequence without    *)
(* tokens i and i+1, the other tokens in their order; later operators and  *)
(* their targets stay as arguments and no file is opened or created for    *)
(* them.                                                                   *)
(***************************************************************************)
C5_OnlyFirstPairRemoved ==
    ((pc = "dispatch" \/ CommandDone) /\ HasOperator(tokens)) =>
        LET i == FirstOperator(tokens)
        IN  /\ Len(cmds) = Len(tokens) - 2
            /\ \A j \in 1..Len(cmds) :
                  cmds[j] = IF j < i THEN tokens[j] ELSE tokens[j + 2]
            /\ OnlyFirstTargetOpened

\* a line with two redirections has been parsed: the second is still there
C5_Witness ==
    /\ pc = "dispatch"
    /\ Cardinality(OperatorsIn(tokens)) = 2
    /\ cmds = <<<<"e","c","h","o">>, <<"a">>, <<"2",">">>, <<"/","d","/","g">>>>
    /\ DOMAIN files = {<<Name_d, <<"f">>>>}

\* the command that ran is the one the first token of the command line names
DispatchedOnFirstToken ==
    CommandDone =>
        /\ cmds # <<>>
        /\ note = "echo" => cmds[1] = <<"e","c","h","o">>
        /\ note \in {"pwd", "pwd_too_many"} => cmds[1] = <<"p","w","d">>
        /\ note \in {"cd", "cd_home", "cd_too_many", "cd_failed"} => cmds[1] = <<"c","d">>
        /\ note \in {"type_arg_count", "type_builtin", "type_external", "type_not_found"}
              => cmds[1] = <<"t","y","p","e">>
        /\ note = "not_found" => wrOut = cmds[1] \o <<":"," ","c","o","m","m","a","n","d"," ","n","o","t"," ","f","o","u","n","d","\n">>
        /\ note = "spawned" => Spawn(PATH, cmds[1], World) # <<>>

(***************************************************************************)
(* C6: after redirection parsing returns successfully, the command line    *)
(* contains no redirection operator token, and the token at index 0 (if    *)
(* any) is the command name used for dispatch.                             *)
(***************************************************************************)
C6_NoOperatorAfterParsing ==
    /\ pc = "dispatch" => ~HasOperator(cmds)
    /\ DispatchedOnFirstToken

(***************************************************************************)
(* C6, amended: after a successful parse the only operator tokens of the   *)
(* command line are those that followed the first operator's target in the *)
(* input, still in place; there is none when the input has at most one     *)
(* operator; the token at index 0 is the command name used for dispatch.   *)
(***************************************************************************)
C6_OnlyLaterOperatorsRemain ==
    /\ pc = "dispatch" =>
          IF HasOperator(tokens)
          THEN \A j \in OperatorsIn(cmds) :
                  j >= FirstOperator(tokens) /\ cmds[j] = tokens[j + 2]
          ELSE ~HasOperator(cmds)
    /\ (pc = "dispatch" /\ Cardinality(OperatorsIn(tokens)) <= 1) => ~HasOperator(cmds)
    /\ DispatchedOnFirstToken

C6_Witness ==
    /\ CommandDone
    /\ note = "echo"
    /\ Cardinality(OperatorsIn(tokens)) = 2
    /\ OperatorsIn(cmds) = {3}

(***************************************************************************)
(* C7: a failed redirection parse has no side effect: no file is created   *)
(* or modified, both sinks stay the process console, the token list is     *)
(* unchanged and the command of the line is not run.                       *)
(***************************************************************************)
C7_FailedRedirectionHasNoEffect ==
    note = "redirection_failed" =>
        /\ pc \in {"start", "read"}
        /\ result # Ok
        /\ files = filesAtStart
        /\ stdout_buffer = StdoutSink
        /\ stderr_buffer = StderrSink
        /\ cmds = tokens
        /\ pc = "start" => (wrOut = <<>> /\ wrErr = <<>> /\ conErr = <<>>)

\* on the second line, with a file already there, the parent of the target is missing
C7_Witness ==
    /\ pc = "start"
    /\ note = "redirection_failed"
    /\ nlines = 2
    /\ files # <<>>
    /\ result = Err(<<"R","e","d","i","r","e","c","t","i","o","n"," ","t","a","r","g","e","t"," ","d","o","e","s","n","'","t"," ","e","x","i","s","t">>)
    /\ tokens = <<<<"e","c","h","o">>, <<"a">>, <<">">>, <<"/","n","/","f">>>>

\* the branches that report a recoverable error
RecoverableNotes ==
    {"redirection_failed", "cd_failed", "not_found", "pwd_too_many", "cd_too_many",
     "type_arg_count"}

\* the message of the error is what the line put out
ErrorReported ==
    CASE note = "redirection_failed" ->
            conOut = Prompt \o <<"F","a","i","l","e","d"," ","t","o"," ","p","a","r","s","e"," ","r","e","d","i","r","e","c","t","i","o","n",":"," ">> \o result[1] \o NL
      [] note = "cd_failed" ->
            \E path \in {cmds[2], Display(cwd) \o <<"/">> \o cmds[2]} :
                wrOut = <<"c","d",":"," ">> \o path \o <<":"," ","N","o"," ","s","u","c","h"," ","f","i","l","e"," ","o","r"," ","d","i","r","e","c","t","o","r","y","\n">>
      [] note = "not_found" -> wrOut = cmds[1] \o <<":"," ","c","o","m","m","a","n","d"," ","n","o","t"," ","f","o","u","n","d","\n">>
      [] note \in {"pwd_too_many", "cd_too_many"} -> wrOut = <<"t","o","o"," ","m","a","n","y"," ","a","r","g","u","m","e","n","t","s","\n">>
      [] note = "type_arg_count" ->
            wrOut = <<"i","n","c","o","r","r","e","c","t"," ","n","u","m","b","e","r"," ","o","f"," ","a","r","g","s"," ","f","o","r"," ","t","y","p","e"," ","c","o","m","m","a","n","d",","," ","e","x","p","e","c","t","e","d"," ","1",","," ","g","o","t"," ">>
                        \o DecimalDigits(Len(cmds) - 1) \o NL
      [] OTHER -> TRUE

(***************************************************************************)
(* C8: every recoverable error (a missing redirection target, a target     *)
(* whose parent directory is missing, cd to a missing directory, a command *)
(* not found, a wrong argument count for pwd, cd or type) is reported as a *)
(* message and the interpreter goes on to prompt for the next line; none   *)
(* ends it.                                                                *)
(***************************************************************************)
C8_RecoverableErrorsContinue ==
    [][/\ (note' \in RecoverableNotes /\ note' # note) => (pc' = "start" /\ ErrorReported')
       /\ (pc = "start" /\ note \in RecoverableNotes) => pc' = "read"]_vars

\* after a cd to a missing directory the interpreter is at its next prompt
C8_Witness ==
    /\ pc = "read"
    /\ note = "cd_failed"
    /\ stdout_buffer = StdoutSink
    /\ conOut = Prompt

\* the file at p holds text where a handle in the given mode wrote it
HoldsWritten(p, is_append, text) ==
    /\ p \in DOMAIN files
    /\ IF is_append THEN files[p] = PriorContent(p) \o text
       ELSE SubSeq(files[p], 1, Len(text)) = text

(***************************************************************************)
(* C9: a successful redirection replaces exactly one sink: stderr_sink if  *)
(* the operator is 2> or 2>>, else stdout_sink; the other stays the        *)
(* process console.  So under `cmd 2> f` an external command's standard    *)
(* output goes to the console and its standard error to f, and under       *)
(* `cmd > f` the reverse.                                                  *)
(***************************************************************************)
C9_ExactlyOneSinkReplaced ==
    ((pc = "dispatch" \/ CommandDone) /\ HasOperator(tokens)) =>
        LET op == tokens[FirstOperator(tokens)]
            p == OpenForWrite(filesAtStart, cwd, FirstTarget(tokens)).path
            is_append == op \in {<<">",">">>, <<"1",">",">">>, <<"2",">",">">>}
        IN  IF op \in {<<"2",">">>, <<"2",">",">">>}
            THEN /\ stdout_buffer = StdoutSink
                 /\ stderr_buffer.kind = "file" /\ stderr_buffer.path = p
                 /\ stderr_buffer.append = is_append
                 /\ conOut = Prompt \o wrOut
                 /\ conErr = <<>>
                 /\ HoldsWritten(p, is_append, wrErr)
            ELSE /\ stderr_buffer = StderrSink
                 /\ stdout_buffer.kind = "file" /\ stdout_buffer.path = p
                 /\ stdout_buffer.append = is_append
                 /\ conErr = wrErr
                 /\ conOut = Prompt
                 /\ HoldsWritten(p, is_append, wrOut)

\* x 2> /d/f has run on a file that held something
C9_Witness ==
    /\ CommandDone
    /\ note = "spawned"
    /\ tokens = <<Name_x, <<"2",">">>, <<"/","d","/","f">>>>
    /\ PriorContent(<<Name_d, <<"f">>>>) # <<>>
    /\ conOut = Prompt \o <<"o","\n">>
    /\ SubSeq(files[<<Name_d, <<"f">>>>], 1, 2) = <<"e","\n">>

(***************************************************************************)
(* C10: at the start of processing every line both sinks are the process   *)
(* console, whatever the lines before did; the output of a line is never   *)
(* written to a file a redirection of an earlier line opened, unless the   *)
(* line itself redirects to it.                                            *)
(***************************************************************************)
C10_FreshSinksEveryLine ==
    /\ pc \in {"read", "parse"} => (stdout_buffer = StdoutSink /\ stderr_buffer = StderrSink)
    /\ (pc \in {"start", "read", "dispatch"} /\ ~HasOperator(tokens)) => files = filesAtStart

\* a line is about to be read after a line whose redirection succeeded
C10_Witness ==
    /\ pc = "read"
    /\ HasOperator(tokens)
    /\ note \in CommandNotes
    /\ files # <<>>
    /\ stdout_buffer = StdoutSink

(***************************************************************************)
(* C11: for a token sequence without any redirection operator, redirection *)
(* parsing returns success, the command line passed to dispatch is the     *)
(* tokenizer's output token for token, both sinks remain the process       *)
(* console and no file is opened or created.                               *)
(***************************************************************************)
C11_NoOperatorNoChange ==
    [][(pc = "parse" /\ ~HasOperator(tokens)) =>
          /\ pc' = "dispatch"
          /\ result' = Ok
          /\ cmds' = tokens
          /\ Len(cmds') = Len(tokens)
          /\ stdout_buffer' = StdoutSink
          /\ stderr_buffer' = StderrSink
          /\ files' = files]_vars

\* a three-token line without operator is at dispatch, a file being there
C11_Witness ==
    /\ pc = "dispatch"
    /\ ~HasOperator(tokens)
    /\ cmds = <<<<"e","c","h","o">>, <<"b"," ","c">>, <<"a">>>>
    /\ files # <<>>

\* a number written without sign and without leading zero, of 9 digits at most
IsPlainNumber(s) ==
    /\ s # <<>>
    /\ Len(s) <= 9
    /\ \A i \in 1..Len(s) : s[i] \in Digits
    /\ Len(s) > 1 => s[1] # "0"
\* a text that holds a character no integer is written with
IsNoNumber(s) == s = <<>> \/ \E i \in 1..Len(s) : s[i] \notin (Digits \cup {"+", "-"})

(***************************************************************************)
(* C12: when the command line is exactly [exit] the interpreter ends with  *)
(* exit code 0; when it is [exit, n] with n an integer it ends with exit   *)
(* code n; when it is [exit, x] with x no integer the interpreter aborts.  *)
(* In the three cases no later line is read or run.                        *)
(***************************************************************************)
C12_ExitEndsTheInterpreter ==
    [][/\ pc \notin {"exited", "panicked"}
       /\ (pc = "dispatch" /\ cmds = <<<<"e","x","i","t">>>>) => (pc' = "exited" /\ exitCode' = 0)
       /\ (pc = "dispatch" /\ Len(cmds) = 2 /\ cmds[1] = <<"e","x","i","t">>) =>
             /\ IsPlainNumber(cmds[2]) =>
                   (pc' = "exited" /\ DecimalDigits(exitCode') = cmds[2])
             /\ IsNoNumber(cmds[2]) => pc' = "panicked"
             /\ pc' \in {"exited", "panicked"}
             /\ nlines' = nlines /\ files' = files /\ cwd' = cwd]_vars

\* exit 7 on the second line has ended the interpreter with code 7
C12_Witness ==
    /\ pc = "exited"
    /\ exitCode = 7
    /\ nlines = 2
    /\ cmds = <<<<"e","x","i","t">>, <<"7">>>>

\* the path cd_cmd hands to set_current_dir for an argument
ResultingPath(arg) ==
    IF StartsWith(arg, ".") THEN Display(cwd) \o <<"/">> \o arg ELSE arg
\* the path names a directory
NamesDirectory(text) ==
    LET r == Stat(files, cwd, text) IN r.ok /\ r.path \in Dirs

(***************************************************************************)
(* C13: the working directory changes only through a successful cd: a cd   *)
(* whose resulting path cannot be set writes "cd: <path>: No such file or  *)
(* directory" to stdout_sink and leaves it unchanged; a cd with more than  *)
(* one argument reports too many arguments and leaves it unchanged; every  *)
(* other line leaves it unchanged, so pwd reports the directory the last   *)
(* successful cd set.                                                      *)
(***************************************************************************)
C13_OnlySuccessfulCdMoves ==
    [][/\ cwd' # cwd =>
             /\ pc = "dispatch"
             /\ Len(cmds) \in {1, 2} /\ cmds[1] = <<"c","d">>
             /\ note' \in {"cd", "cd_home"}
             /\ Len(cmds) = 2 /\ ~StartsWith(cmds[2], "~")
                   => Stat(files, cwd, ResultingPath(cmds[2])).path = cwd'
       /\ (/\ pc = "dispatch"
           /\ Len(cmds) = 2 /\ cmds[1] = <<"c","d">>
           /\ ~StartsWith(cmds[2], "~")
           /\ ~NamesDirectory(ResultingPath(cmds[2]))) =>
             /\ cwd' = cwd
             /\ wrOut' = <<"c","d",":"," ">> \o ResultingPath(cmds[2])
                            \o <<":"," ","N","o"," ","s","u","c","h"," ","f","i","l","e"," ","o","r"," ","d","i","r","e","c","t","o","r","y","\n">>
             /\ pc' = "start"
       /\ (pc = "dispatch" /\ Len(cmds) > 2 /\ cmds[1] = <<"c","d">>) =>
             (cwd' = cwd /\ wrOut' = <<"t","o","o"," ","m","a","n","y"," ","a","r","g","u","m","e","n","t","s","\n">>)
       /\ (pc = "dispatch" /\ cmds = <<<<"p","w","d">>>>) =>
             (cwd' = cwd /\ wrOut' = Display(cwd) \o NL)]_vars

\* pwd on the line after cd .. reports the root
C13_Witness ==
    /\ CommandDone
    /\ note = "pwd"
    /\ cwd = Root
    /\ conOut = Prompt \o <<"/","\n">>

(***************************************************************************)
(* C14: for a line with an unterminated quote tokenization fails: the      *)
(* error is shown, no command is run and no redirection is applied for the *)
(* line (no token lexed before the error is dispatched), and the           *)
(* interpreter prompts again.                                              *)
(***************************************************************************)
C14_UnterminatedQuoteRunsNothing ==
    had_error =>
        /\ pc \in {"parse", "start", "read"}
        /\ note \notin CommandNotes
        /\ files = filesAtStart
        /\ stdout_buffer.kind # "file" /\ stderr_buffer.kind # "file"
        /\ pc = "start" => (wrOut = <<>> /\ conOut # Prompt)

\* the directories of the search path, in order
SearchPath == <<<<"/","d">>, <<"/","b">>>>
\* the places of the search path where name is a regular file
Qualifying(name) ==
    {i \in 1..Len(SearchPath) :
        LET r == Stat(files, cwd, SearchPath[i] \o <<"/">> \o name)
        IN  r.ok /\ IsFile(files, r.path)}
FirstQualifying(name) ==
    SearchPath[CHOOSE i \in Qualifying(name) : \A j \in Qualifying(name) : i <= j]
        \o <<"/">> \o name

\* type has looked a name up: it reports the first qualifying join, or not
\* found when there is none
TypeReportsLookup ==
    (CommandDone /\ note \in {"type_external", "type_not_found"}) =>
        LET name == cmds[2]
        IN  IF Qualifying(name) = {}
            THEN note = "type_not_found" /\ wrOut = name \o <<":"," ","n","o","t"," ","f","o","u","n","d","\n">>
            ELSE /\ note = "type_external"
                 /\ wrOut = name \o <<" ","i","s"," ">> \o FirstQualifying(name) \o NL

\* the external arm of dispatch has handled a command name
ExternalArmRan ==
    /\ pc \in {"start", "panicked"}
    /\ note \in {"spawned", "not_found", "spawn_failed"}

(***************************************************************************)
(* C15: command lookup returns the join of the name with the first         *)
(* directory of the search path where that join is a regular file, and not *)
(* found iff there is none; type and external execution use the same       *)
(* lookup, so for a name that is no builtin `type <name>` reports          *)
(* "<name> is <path>" exactly when running <name> spawns a process, and    *)
(* "<name>: not found" exactly when running it reports command not found.  *)
(***************************************************************************)
C15_TypeAgreesWithExecution ==
    /\ TypeReportsLookup
    /\ ExternalArmRan =>
          /\ Qualifying(cmds[1]) # {} <=> note = "spawned"
          /\ Qualifying(cmds[1]) = {} <=> note = "not_found"

(***************************************************************************)
(* C15, amended: as C15, but a found name is one whose running reaches the *)
(* spawn: the process runs, or the interpreter aborts when the operating   *)
(* system cannot execute what the name stands for.                         *)
(***************************************************************************)
C15_TypeAgreesWithSpawnAttempt ==
    /\ TypeReportsLookup
    /\ ExternalArmRan =>
          /\ Qualifying(cmds[1]) # {} <=> note \in {"spawned", "spawn_failed"}
          /\ Qualifying(cmds[1]) = {} <=> note = "not_found"
          /\ note = "not_found" => wrOut = cmds[1] \o <<":"," ","c","o","m","m","a","n","d"," ","n","o","t"," ","f","o","u","n","d","\n">>
          /\ note = "spawn_failed" <=> pc = "panicked"

\* type x when both directories of the search path hold a file x
C15_Witness ==
    /\ CommandDone
    /\ note = "type_external"
    /\ cmds[2] = Name_x
    /\ Qualifying(Name_x) = {1, 2}
    /\ wrOut = <<"x"," ","i","s"," ","/","d","/","x","\n">>

(***************************************************************************)
(* C16: stderr_sink is written only with the standard error of a spawned   *)
(* external command; all output of the builtins and all messages of the    *)
(* interpreter go to stdout_sink.  So under `cmd > f` they land in f, and  *)
(* under `cmd 2> f` with a builtin or a command not found nothing is       *)
(* written to f.                                                           *)
(***************************************************************************)
C16_StderrOnlyFromExternal ==
    /\ wrErr # <<>> => (note = "spawned" /\ wrErr = <<"e","\n">>)
    /\ (CommandDone /\ note # "spawned") =>
          /\ wrErr = <<>> /\ conErr = <<>>
          /\ note \notin {"cd", "cd_home"} => wrOut # <<>>
          /\ stderr_buffer.kind = "file" =>
                (files[stderr_buffer.path] = PriorContent(stderr_buffer.path)
                 /\ conOut = Prompt \o wrOut)
          /\ stdout_buffer.kind = "file" =>
                (HoldsWritten(stdout_buffer.path, stdout_buffer.append, wrOut)
                 /\ conOut = Prompt)

\* n 2> /d/f has run: the report is on the console, the file is as it was
C16_Witness ==
    /\ CommandDone
    /\ note = "not_found"
    /\ stderr_buffer.kind = "file"
    /\ PriorContent(stderr_buffer.path) # <<>>
    /\ files = filesAtStart
    /\ conOut = Prompt \o <<"n",":"," ","c","o","m","m","a","n","d"," ","n","o","t"," ","f","o","u","n","d","\n">>

(***************************************************************************)
(* C17: redirection parsing is total: for every token sequence and every   *)
(* target after the first operator, the empty string and the root path     *)
(* included, parse_redirection returns success or one of its error values  *)
(* and never aborts the interpreter.                                       *)
(***************************************************************************)
C17_ParseRedirectionTotal ==
    [][pc = "parse" =>
          (pc' \in {"dispatch", "start"} /\ (pc' = "start" => result' # Ok))]_vars

=============================================================================
